---------------------------- MODULE Spec2Model ----------------------------
(***************************************************************************)
(* A model of tldrpp's cache (src/tldrpp/cache.py): the CacheManager's     *)
(* on-disk state (index.json and the per-platform page files), the         *)
(* initialize()/update() download sequence, and the find_page and          *)
(* search_pages lookups together with the page parser and the relevance    *)
(* score they rest on; and of the App commands built on it                 *)
(* (src/tldrpp/app.py): render_command, execute_command and run_tui.       *)
(*                                                                         *)
(* Python strings are TLA+ strings; str.lower(), startswith, "in", split   *)
(* and strip are computed character by character.  Lists are sequences.    *)
(***************************************************************************)
EXTENDS Integers, Sequences, FiniteSets, TLC

VARIABLES
    indexFile,   \* <cache_dir>/index.json: whether it exists, and the JSON array it holds
    pageFiles,   \* <cache_dir>/<platform>/<name>.md: key -> text, for the files that exist
    pc,          \* position of the running initialize(): "idle" when none runs
    index,       \* initialize()'s local `index` (the downloaded entry list)
    cursor,      \* position of _download_pages' loop in `index`
    attempted,   \* history: positions of `index` whose _download_page was called
    skipped,     \* history: positions of `index` whose _download_page raised
    reqs,        \* session.get calls made by the current / last operation
    indexResponse, \* history: what the last request for pages.json came to
    result,      \* what the last operation returned or raised
    renders,     \* history: calls of Example.render made by the last operation
    executed,    \* history: the command lines handed to subprocess.run
    execLog,     \* <cache_dir>/../exec.log: its lines
    indexText,   \* index.json as the text on disk, while _save_index writes it
    save,        \* position of the running _save_index, its argument and the
                 \* file it found
    call,        \* the last call of a function that touches no state: its
                 \* name, arguments and what it returned or raised
    tui          \* App.run_tui: its position, the query it was given, the
                 \* frames of TUIApp.run on the stack and how it ended

\* The state the cache operations work on.
cacheVars == <<indexFile, pageFiles, pc, index, cursor, attempted, skipped, reqs,
               indexResponse, result, renders, executed, execLog, indexText, save,
               tui>>

\* The state of a _save_index followed step by step.
saveVars == <<indexText, save>>

\* What App's commands leave besides their result.
appVars == <<renders, executed, execLog>>

vars == <<indexFile, pageFiles, pc, index, cursor, attempted, skipped, reqs,
          indexResponse, result, renders, executed, execLog, indexText, save,
          call, tui>>

-----------------------------------------------------------------------------
(* Bounds of the model.                                                    *)

\* Longest index list the remote catalog serves.
MaxIndexLen == 2

\* Longest example list of a Page handed to a function.
MaxExamples == 2

\* Longest placeholder list of an Example built by a caller.
MaxPlaceholders == 2

\* Characters the file object of _save_index buffers before they reach the
\* disk (Python's buffer, scaled down).
FlushSize == 16

-----------------------------------------------------------------------------
(* Characters and strings.                                                 *)

\* The backtick (a string literal cannot hold one on its own).
BT == SubSeq("`'", 1, 1)

\* The upper-case letters and, position by position, their lower-case forms.
UpperLetters == "ABCDEFGHIJKLMNOPQRSTUVWXYZ"

LowerLetters == "abcdefghijklmnopqrstuvwxyz"

\* Printable ASCII in code point order, from the space (32) on.
AsciiPrintable ==
    " !\"#$%&'(" \o ")*+,-./0123456789:;<=>?@" \o UpperLetters
        \o "[\\]^_" \o BT \o LowerLetters \o "{|}~"

CharAt(s, i) == SubSeq(s, i, i)

\* Position of character c in s, 0 when absent.
PosIn(c, s) ==
    IF \E i \in 1..Len(s) : CharAt(s, i) = c
    THEN CHOOSE i \in 1..Len(s) : CharAt(s, i) = c
    ELSE 0

\* ord(c): the code point of c (tab, newline, carriage return, printable ASCII).
CodePoint(c) ==
    CASE c = "\t" -> 9
      [] c = "\n" -> 10
      [] c = "\r" -> 13
      [] OTHER -> PosIn(c, AsciiPrintable) + 31

\* str.lower() on one character.
LowerAt(c, p) == IF p = 0 THEN c ELSE CharAt(LowerLetters, p)

LowerChar(c) == LowerAt(c, PosIn(c, UpperLetters))

\* str.lower(), character by character
RECURSIVE LowerChars(_)
LowerChars(s) == IF s = "" THEN "" ELSE LowerChar(Head(s)) \o LowerChars(Tail(s))

\* s.startswith(p)
StartsWith(s, p) == Len(p) <= Len(s) /\ SubSeq(s, 1, Len(p)) = p

\* s.endswith(p)
EndsWith(s, p) == Len(p) <= Len(s) /\ SubSeq(s, Len(s) - Len(p) + 1, Len(s)) = p

\* `sub in s`
Contains(s, sub) ==
    \E i \in 1..(Len(s) - Len(sub) + 1) : SubSeq(s, i, i + Len(sub) - 1) = sub

\* s[n:], n >= 0
DropFirst(s, n) == SubSeq(s, n + 1, Len(s))

\* a < b, Python's str comparison (by code point, a proper prefix first)
RECURSIVE StrLess(_, _)
StrLess(a, b) ==
    IF b = "" THEN FALSE
    ELSE IF a = "" THEN TRUE
    ELSE IF Head(a) = Head(b) THEN StrLess(Tail(a), Tail(b))
    ELSE CodePoint(Head(a)) < CodePoint(Head(b))


\* str.strip(): leading and trailing whitespace removed
IsSpace(c) == c \in {" ", "\t", "\n", "\r"}

RECURSIVE LStrip(_)
LStrip(s) == IF s # "" /\ IsSpace(Head(s)) THEN LStrip(Tail(s)) ELSE s

RECURSIVE RStrip(_)
RStrip(s) ==
    IF s # "" /\ IsSpace(CharAt(s, Len(s)))
    THEN RStrip(SubSeq(s, 1, Len(s) - 1))
    ELSE s

Strip(s) == RStrip(LStrip(s))

\* s.split("\n"): the pieces between newlines, at least one
RECURSIVE SplitLines(_)

\* s split at its first newline, which is at p (0: there is none)
SplitAt(s, p) ==
    IF p = 0 THEN <<s>>
    ELSE <<SubSeq(s, 1, p - 1)>> \o SplitLines(DropFirst(s, p))

SplitLines(s) == SplitAt(s, PosIn("\n", s))

-----------------------------------------------------------------------------
(* Returned values and raised exceptions.                                  *)

\* A call that returned v.
Ok(v) == [exc |-> "none", val |-> v]

\* A call that raised exception e.
Raise(e) == [exc |-> e, val |-> <<>>]

Raised(r) == r.exc # "none"

-----------------------------------------------------------------------------
(* The data classes.  A constructor call is the record of the arguments    *)
(* it passes, by parameter name; binding it to the signature fails with a  *)
(* TypeError on an unknown keyword or a missing required parameter.        *)

IndexEntry(name, description, platform) ==
    [name |-> name, description |-> description, platform |-> platform]

\* Placeholder.__init__(self, name, type_="text", description="", default="")
PlaceholderInit(args) ==
    IF ~(DOMAIN args \subseteq {"name", "type_", "description", "default"})
       \/ "name" \notin DOMAIN args
    THEN Raise("TypeError")
    ELSE Ok([name        |-> args.name,
             type        |-> IF "type_" \in DOMAIN args THEN args.type_ ELSE "text",
             description |-> IF "description" \in DOMAIN args
                             THEN args.description ELSE "",
             default     |-> IF "default" \in DOMAIN args THEN args.default ELSE ""])

\* Example.__init__(self, description, command, placeholders=None)
ExampleInit(args) ==
    IF ~(DOMAIN args \subseteq {"description", "command", "placeholders"})
       \/ ~({"description", "command"} \subseteq DOMAIN args)
    THEN Raise("TypeError")
    ELSE Ok([description  |-> args.description,
             command      |-> args.command,
             placeholders |-> IF "placeholders" \in DOMAIN args
                              THEN args.placeholders ELSE <<>>])

\* Example.render(self, variables).  The statement that builds the pattern,
\*     re.compile(rf"\{\{{{re.escape(placeholder.name)}}}\}}")
\* is no valid f-string (its first replacement field opens at the first
\* single brace and holds a backslash), so compiling cache.py stops there with
\* a SyntaxError and no call of render returns.
Render(example, variables) == Raise("SyntaxError")

\* Page.__init__(self, name, description, platform, examples=None, raw_content="")
PageInit(name, description, platform, raw_content) ==
    [name        |-> name,
     description |-> description,
     platform    |-> platform,
     examples    |-> <<>>,
     raw_content |-> raw_content]

-----------------------------------------------------------------------------
(* The remote side and the callers' inputs.                                *)

\* Entries the remote catalog (pages.json) may list.
CatalogEntries ==
    { IndexEntry("ab", "B", "linux"),
      IndexEntry("Ab", "x", "linux"),
      IndexEntry("ab", "x", "osx"),
      IndexEntry("ba", "x", "osx") }

\* The entry lists pages.json may hold.
IndexLists == UNION { [1..n -> CatalogEntries] : n \in 0..MaxIndexLen }

\* A page with a description and no example.
DocPlain == "# t\n\n> B\n"

\* A page with a description and one example.
DocExample == "# t\n\n> x\n\n- b:\n\n" \o BT \o "ab {{f}}" \o BT \o "\n"

\* The documents the remote serves for a page.
PageDocs == {DocPlain, DocExample}

\* What session.get(index url) and the decoding of its body may come to.
IndexResponses ==
    { [kind |-> "ok", entries |-> l] : l \in IndexLists }
    \cup { [kind |-> k, entries |-> <<>>] :
             k \in {"ConnectionError", "Timeout", "HTTPError",
                    "JSONDecodeError", "KeyError", "TypeError"} }

\* What session.get(page url) may come to.
PageResponses ==
    { [kind |-> "ok", text |-> d] : d \in PageDocs }
    \cup { [kind |-> k, text |-> ""] : k \in {"ConnectionError", "Timeout", "HTTPError"} }

\* What the disk does to _download_page's mkdir / open / write.
DiskOutcomes == {"ok", "open_fails", "write_fails"}

\* Names callers look up and search for.
Queries == {"ab", "AB", "b", "c", "x"}

\* The `variables` dicts callers pass to render.
RenderBindings ==
    { <<>>, [n \in {"f"} |-> "v"], [n \in {"f"} |-> ""],
      [n \in {"f"} |-> "{{g}}"] }

\* What the user types at execute_command's prompt.
Responses == {"y", "YES", "", "n"}

\* What subprocess.run(rendered, shell=True, check=True) comes to.
ProcessOutcomes == {"ok", "CalledProcessError"}

\* Platform lists callers pass to search_pages.
PlatformLists == { <<>>, <<"linux">>, <<"osx", "linux">> }

\* The texts a page file may hold: a served document, or nothing after a
\* failed write.
PageContents == PageDocs \cup {""}

\* The strings of the inputs above that the lookups lower-case.
LoweredStrings ==
    Queries
    \cup {e.name : e \in CatalogEntries}
    \cup {e.description : e \in CatalogEntries}
    \cup {"B", "x", "b:"}

\* str.lower() of each of them, computed once.
LowerTable == [s \in LoweredStrings |-> LowerChars(s)]

\* str.lower()
Lower(s) == IF s \in LoweredStrings THEN LowerTable[s] ELSE LowerChars(s)

-----------------------------------------------------------------------------
(* The placeholder engine.                                                 *)

\* The last keyword that name_lower contains.
LastKeyword(name_lower, keywords) ==
    IF \E k \in 1..Len(keywords) : Contains(name_lower, keywords[k][1])
    THEN CHOOSE k \in 1..Len(keywords) :
            /\ Contains(name_lower, keywords[k][1])
            /\ \A j \in (k + 1)..Len(keywords) :
                  ~Contains(name_lower, keywords[j][1])
    ELSE 0

\* The first keyword of `keywords` that is in name_lower, 0 when none is.
FirstKeyword(name_lower, keywords) ==
    IF \E k \in 1..Len(keywords) : Contains(name_lower, keywords[k][1])
    THEN CHOOSE k \in 1..Len(keywords) :
            /\ Contains(name_lower, keywords[k][1])
            /\ \A j \in 1..(k - 1) : ~Contains(name_lower, keywords[j][1])
    ELSE 0

\* The if / elif chain of _infer_placeholder_type: each keyword tested, in the
\* order tested, with the type returned.
TypeRules ==
    << <<"file", "file">>, <<"path", "file">>,
       <<"dir", "directory">>, <<"directory", "directory">>,
       <<"port", "port">>,
       <<"num", "number">>, <<"number", "number">>, <<"count", "number">>,
       <<"url", "url">>, <<"link", "url">>,
       <<"ip", "ip">>, <<"address", "ip">>,
       <<"user", "username">>, <<"username", "username">>,
       <<"pass", "password">>, <<"password", "password">>,
       <<"email", "email">> >>

TypeByRule(k) == IF k = 0 THEN "text" ELSE TypeRules[k][2]

\* CacheManager._infer_placeholder_type
InferPlaceholderType(name) == TypeByRule(FirstKeyword(Lower(name), TypeRules))

\* re.compile(r"\{\{([^}]+)\}\}").findall(command): the groups of the leftmost,
\* non-overlapping matches.  A match at i is "{{", then the non-empty run of
\* characters up to the next "}", then "}}".
\* Does "{{" at i match, `close` being the offset of the next "}" after it?
TokenAt(s, i, close) ==
    /\ close > 1
    /\ i + 2 + close <= Len(s)
    /\ SubSeq(s, i + 1 + close, i + 2 + close) = "}}"

RECURSIVE FindAllTokens(_, _)

FindTokensFrom(s, i, close) ==
    IF TokenAt(s, i, close)
    THEN <<SubSeq(s, i + 2, i + close)>> \o FindAllTokens(s, i + close + 3)
    ELSE FindAllTokens(s, i + 1)

FindAllTokens(s, i) ==
    IF i + 1 > Len(s) THEN <<>>
    ELSE IF SubSeq(s, i, i + 1) # "{{" THEN FindAllTokens(s, i + 1)
    ELSE FindTokensFrom(s, i, PosIn("}", DropFirst(s, i + 1)))

\* The loop of _extract_placeholders over `matches` from position k, with the
\* placeholders built so far and the names seen.
RECURSIVE ExtractLoop(_, _, _, _)

\* The rest of an iteration, once Placeholder(...) has returned or raised.
ExtractNext(matches, k, placeholders, seen, made) ==
    IF Raised(made) THEN made
    ELSE ExtractLoop(matches, k + 1, Append(placeholders, made.val),
                     seen \cup {matches[k]})

ExtractLoop(matches, k, placeholders, seen) ==
    IF k > Len(matches) THEN Ok(placeholders)
    ELSE IF matches[k] \in seen
    THEN ExtractLoop(matches, k + 1, placeholders, seen)
    ELSE ExtractNext(matches, k, placeholders, seen,
                     PlaceholderInit([name |-> matches[k],
                                      type |-> InferPlaceholderType(matches[k])]))

\* CacheManager._extract_placeholders
ExtractPlaceholders(command) ==
    ExtractLoop(FindAllTokens(command, 1), 1, <<>>, {})

-----------------------------------------------------------------------------
(* The page parser.                                                        *)

\* The locals of _parse_page's loop: the page, current_example ("None" until
\* a list item starts one), in_example, and the exception that ended it.
ParseStart(content, entry) ==
    [page            |-> PageInit(entry.name, entry.description,
                                  entry.platform, content),
     current_example |-> <<>>,
     has_current     |-> FALSE,
     in_example      |-> FALSE,
     exc             |-> "none"]

\* page.examples once the pending example, if any, is appended.
WithPending(st) ==
    IF st.has_current THEN Append(st.page.examples, st.current_example)
    ELSE st.page.examples

\* A list item: the pending example is appended and Example(...) starts the next.
StartExample(st, made) ==
    IF Raised(made)
    THEN [st EXCEPT !.page.examples = WithPending(st), !.exc = made.exc]
    ELSE [st EXCEPT !.page.examples = WithPending(st),
                    !.current_example = made.val,
                    !.has_current = TRUE,
                    !.in_example = TRUE]

\* A command line: the command and its placeholders are set on the pending example.
SetCommand(st, command, found) ==
    IF Raised(found)
    THEN [st EXCEPT !.current_example.command = command, !.exc = found.exc]
    ELSE [st EXCEPT !.current_example.command = command,
                    !.current_example.placeholders = found.val]

\* The if / elif chain of _parse_page's loop, on the stripped line.
ParseStripped(st, line) ==
    IF StartsWith(line, "# ") THEN st
    ELSE IF StartsWith(line, "> ")
    THEN [st EXCEPT !.page.description = DropFirst(line, 2)]
    ELSE IF StartsWith(line, "- ")
    THEN StartExample(st, ExampleInit([description |-> DropFirst(line, 2)]))
    ELSE IF StartsWith(line, BT) /\ EndsWith(line, BT) /\ st.in_example
    THEN SetCommand(st, SubSeq(line, 2, Len(line) - 1),
                    ExtractPlaceholders(SubSeq(line, 2, Len(line) - 1)))
    ELSE IF line = "" THEN [st EXCEPT !.in_example = FALSE]
    ELSE st

\* One iteration of _parse_page's loop, on one line.
ParseLine(st, raw_line) == ParseStripped(st, Strip(raw_line))

\* The loop over lines[k..], stopping at the first exception.
RECURSIVE ParseLoop(_, _, _)
ParseLoop(st, lines, k) ==
    IF k > Len(lines) \/ st.exc # "none" THEN st
    ELSE ParseLoop(ParseLine(st, lines[k]), lines, k + 1)

\* After the loop: the last example is added and the page returned.
ParseEnd(st) ==
    IF st.exc # "none" THEN Raise(st.exc)
    ELSE Ok([st.page EXCEPT !.examples = WithPending(st)])

\* CacheManager._parse_page: the Page, or the exception raised while parsing.
ParsePage(content, entry) ==
    ParseEnd(ParseLoop(ParseStart(content, entry), SplitLines(content), 1))

-----------------------------------------------------------------------------
(* The cache directory.                                                    *)

\* index.json does not exist.
NoFile == [exists |-> FALSE, data |-> <<>>]

\* index.json holding the JSON array `data`.
FileOf(data) == [exists |-> TRUE, data |-> data]

\* Path of an entry's page under cache_dir: <platform>/<name>.md
PagePath(entry) == <<entry.platform, entry.name>>

\* An is_initialized that never finds the index.
NeverInitialized(idxFile) == FALSE

\* CacheManager.is_initialized
IsInitialized(idxFile) == idxFile.exists

\* The document _save_index dumps: one object per entry, in list order.
IndexDocument(entries) ==
    [i \in 1..Len(entries) |->
        [name        |-> entries[i].name,
         description |-> entries[i].description,
         platform    |-> entries[i].platform]]

\* CacheManager._load_index: open() raises when index.json is absent.
LoadIndex(idxFile) ==
    IF ~idxFile.exists THEN Raise("FileNotFoundError")
    ELSE Ok([i \in 1..Len(idxFile.data) |->
                IndexEntry(idxFile.data[i].name, idxFile.data[i].description,
                           idxFile.data[i].platform)])

\* _parse_page of each page text for each catalog entry, computed once.
ParseTable ==
    [content \in PageContents, entry \in CatalogEntries |->
        ParsePage(content, entry)]

\* self._parse_page(content, entry)
Parsed(content, entry) ==
    IF content \in PageContents /\ entry \in CatalogEntries
    THEN ParseTable[content, entry]
    ELSE ParsePage(content, entry)

\* CacheManager._load_page: open() raises when the page file is absent.
LoadPage(files, entry) ==
    IF PagePath(entry) \notin DOMAIN files THEN Raise("FileNotFoundError")
    ELSE Parsed(files[PagePath(entry)], entry)

-----------------------------------------------------------------------------
(* index.json as text: json.dump(data, f, indent=2) and json.load(f), on    *)
(* ASCII strings.  (For other characters, and for the control characters   *)
(* without a short escape, the dump writes \uXXXX escapes; they are outside *)
(* the alphabet of the model.)                                             *)

\* What the encoder writes for character c of a string.
JsonEscapeChar(c) ==
    IF c = "\"" THEN "\\\""
    ELSE IF c = "\\" THEN "\\\\"
    ELSE IF c = "\n" THEN "\\n"
    ELSE IF c = "\r" THEN "\\r"
    ELSE IF c = "\t" THEN "\\t"
    ELSE c

RECURSIVE JsonEscape(_)
JsonEscape(s) ==
    IF s = "" THEN "" ELSE JsonEscapeChar(CharAt(s, 1)) \o JsonEscape(Tail(s))

\* A string as the encoder writes it.
JsonString(s) == "\"" \o JsonEscape(s) \o "\""

\* One dict of `data` at indent level 1: its keys in insertion order.
JsonObject(item) ==
    "{\n    \"name\": " \o JsonString(item.name)
        \o ",\n    \"description\": " \o JsonString(item.description)
        \o ",\n    \"platform\": " \o JsonString(item.platform)
        \o "\n  }"

\* The dicts data[k..], separated as indent=2 separates them.
RECURSIVE JsonItems(_, _)
JsonItems(data, k) ==
    IF k = Len(data) THEN JsonObject(data[k])
    ELSE JsonObject(data[k]) \o ",\n  " \o JsonItems(data, k + 1)

\* json.dump(data, f, indent=2)
JsonDump(data) ==
    IF data = <<>> THEN "[]" ELSE "[\n  " \o JsonItems(data, 1) \o "\n]"

\* The character at position i, "" past the end.
JsonAt(s, i) == IF i <= Len(s) THEN CharAt(s, i) ELSE ""

\* First position from i on that holds no JSON whitespace.
RECURSIVE SkipWs(_, _)
SkipWs(s, i) ==
    IF JsonAt(s, i) \in {" ", "\t", "\n", "\r"} THEN SkipWs(s, i + 1) ELSE i

\* The decoder read value v, of kind t ("str", "arr", "obj"), up to next - 1.
JsonRead(t, v, next) == [exc |-> "none", val |-> [t |-> t, v |-> v], next |-> next]

\* The decoder stopped at position i.
JsonError(i) == [exc |-> "JSONDecodeError", val |-> [t |-> "none", v |-> <<>>],
                 next |-> i]

\* The character a short escape stands for, "" when there is no such escape.
JsonUnescape(e) ==
    IF e = "\"" THEN "\""
    ELSE IF e = "\\" THEN "\\"
    ELSE IF e = "/" THEN "/"
    ELSE IF e = "n" THEN "\n"
    ELSE IF e = "r" THEN "\r"
    ELSE IF e = "t" THEN "\t"
    ELSE ""

\* The decoder inside a string, at position j, having read acc.
RECURSIVE JsonStringFrom(_, _, _)
JsonStringFrom(s, j, acc) ==
    IF j > Len(s) THEN JsonError(j)
    ELSE IF CharAt(s, j) = "\"" THEN JsonRead("str", acc, j + 1)
    ELSE IF CharAt(s, j) = "\\"
    THEN IF JsonUnescape(JsonAt(s, j + 1)) = "" THEN JsonError(j)
         ELSE JsonStringFrom(s, j + 2, acc \o JsonUnescape(JsonAt(s, j + 1)))
    ELSE IF CharAt(s, j) \in {"\n", "\r", "\t"} THEN JsonError(j)
    ELSE JsonStringFrom(s, j + 1, acc \o CharAt(s, j))

RECURSIVE JsonValueAt(_, _)
RECURSIVE JsonArrayItems(_, _, _)
RECURSIVE JsonMembers(_, _, _)

\* After an item of an array: a comma and the next item, or the end.
JsonAfterItem(s, i, acc) ==
    IF JsonAt(s, i) = "," THEN JsonArrayItems(s, SkipWs(s, i + 1), acc)
    ELSE IF JsonAt(s, i) = "]" THEN JsonRead("arr", acc, i + 1)
    ELSE JsonError(i)

\* The item `read` of an array is read.
JsonItemRead(s, read, acc) ==
    IF Raised(read) THEN read
    ELSE JsonAfterItem(s, SkipWs(s, read.next), Append(acc, read.val))

JsonArrayItems(s, i, acc) == JsonItemRead(s, JsonValueAt(s, i), acc)

\* After a member of an object: a comma and the next member, or the end.
JsonAfterMember(s, i, acc) ==
    IF JsonAt(s, i) = "," THEN JsonMembers(s, SkipWs(s, i + 1), acc)
    ELSE IF JsonAt(s, i) = "}" THEN JsonRead("obj", acc, i + 1)
    ELSE JsonError(i)

\* The value `read` of key `key` is read; a repeated key keeps its last value.
JsonMemberRead(s, key, read, acc) ==
    IF Raised(read) THEN read
    ELSE JsonAfterMember(s, SkipWs(s, read.next),
            [k \in DOMAIN acc \cup {key} |->
                IF k = key THEN read.val ELSE acc[k]])

\* After a key: the colon and the value.
JsonAfterKey(s, i, key, acc) ==
    IF JsonAt(s, i) = ":"
    THEN JsonMemberRead(s, key, JsonValueAt(s, SkipWs(s, i + 1)), acc)
    ELSE JsonError(i)

\* The key `read` of a member is read.
JsonKeyRead(s, read, acc) ==
    IF Raised(read) THEN read
    ELSE JsonAfterKey(s, SkipWs(s, read.next), read.val.v, acc)

JsonMembers(s, i, acc) ==
    IF JsonAt(s, i) = "\"" THEN JsonKeyRead(s, JsonStringFrom(s, i + 1, ""), acc)
    ELSE JsonError(i)

\* The decoder at the first character of a value: a string, an array or an
\* object (index.json holds no number, true, false or null).
JsonValueAt(s, i) ==
    IF JsonAt(s, i) = "\"" THEN JsonStringFrom(s, i + 1, "")
    ELSE IF JsonAt(s, i) = "["
    THEN IF JsonAt(s, SkipWs(s, i + 1)) = "]"
         THEN JsonRead("arr", <<>>, SkipWs(s, i + 1) + 1)
         ELSE JsonArrayItems(s, SkipWs(s, i + 1), <<>>)
    ELSE IF JsonAt(s, i) = "{"
    THEN IF JsonAt(s, SkipWs(s, i + 1)) = "}"
         THEN JsonRead("obj", <<>>, SkipWs(s, i + 1) + 1)
         ELSE JsonMembers(s, SkipWs(s, i + 1), <<>>)
    ELSE JsonError(i)

\* The document is read: nothing but whitespace may follow it.
JsonDocument(s, read) ==
    IF Raised(read) THEN read
    ELSE IF SkipWs(s, read.next) <= Len(s) THEN JsonError(SkipWs(s, read.next))
    ELSE read

\* json.load(f), f holding text s
JsonLoad(s) == JsonDocument(s, JsonValueAt(s, SkipWs(s, 1)))

\* index.json, as text, does not exist.
NoTextFile == [exists |-> FALSE, text |-> ""]

\* A file opened in mode "a": what is written follows what it held.
WrittenAppending(old, text) == old \o text

\* `with open(index_file, "w") as f: json.dump(...)`: the file is truncated
\* and holds what is written.
Written(old, text) == text

\* CacheManager._save_index, on the text of index.json
SaveIndexText(file, entries) ==
    [exists |-> TRUE, text |-> Written(file.text, JsonDump(IndexDocument(entries)))]

\* A decoded value as Python holds it: a str is the string itself.
JsonPlain(value) == IF value.t = "str" THEN value.v ELSE value

\* IndexEntry(name=item["name"], ...) for one item of the document
EntryOfItem(item) ==
    IF item.t # "obj" THEN Raise("TypeError")
    ELSE IF ~({"name", "description", "platform"} \subseteq DOMAIN item.v)
    THEN Raise("KeyError")
    ELSE Ok(IndexEntry(JsonPlain(item.v.name), JsonPlain(item.v.description),
                       JsonPlain(item.v.platform)))

RECURSIVE EntriesFrom(_, _, _)

\* The comprehension of _load_index after item k made `made`.
EntryMade(items, k, acc, made) ==
    IF Raised(made) THEN made
    ELSE EntriesFrom(items, k + 1, Append(acc, made.val))

\* The comprehension of _load_index over items[k..]
EntriesFrom(items, k, acc) ==
    IF k > Len(items) THEN Ok(acc)
    ELSE EntryMade(items, k, acc, EntryOfItem(items[k]))

\* `for item in data`: a list gives its items; a dict gives its keys and a
\* str its characters, on which item["name"] raises.
EntriesOfDocument(read) ==
    IF Raised(read) THEN Raise("JSONDecodeError")
    ELSE IF read.val.t = "arr" THEN EntriesFrom(read.val.v, 1, <<>>)
    ELSE IF read.val.t = "obj" /\ DOMAIN read.val.v = {} THEN Ok(<<>>)
    ELSE IF read.val.t = "str" /\ read.val.v = "" THEN Ok(<<>>)
    ELSE Raise("TypeError")

\* CacheManager._load_index, on the text of index.json
LoadIndexText(file) ==
    IF ~file.exists THEN Raise("FileNotFoundError")
    ELSE EntriesOfDocument(JsonLoad(file.text))

-----------------------------------------------------------------------------
(* list.sort(key=...): stable, ascending in the key.  The list is given  *)
(* as [key, item] pairs; a key is a tuple <<number, string>>, compared as   *)
(* Python compares tuples (False < True as 0 < 1).                          *)

KeyLess(a, b) ==
    \/ a[1] < b[1]
    \/ a[1] = b[1] /\ StrLess(a[2], b[2])

\* `sorted` with pair x inserted after the last pair whose key is not greater.
RECURSIVE InsertSorted(_, _)
InsertSorted(sorted, x) ==
    IF sorted = <<>> THEN <<x>>
    ELSE IF KeyLess(x.key, sorted[Len(sorted)].key)
    THEN Append(InsertSorted(SubSeq(sorted, 1, Len(sorted) - 1), x),
                sorted[Len(sorted)])
    ELSE Append(sorted, x)

RECURSIVE SortPairs(_)
SortPairs(pairs) ==
    IF pairs = <<>> THEN <<>>
    ELSE InsertSorted(SortPairs(SubSeq(pairs, 1, Len(pairs) - 1)),
                      pairs[Len(pairs)])

ItemsOf(pairs) == [i \in 1..Len(pairs) |-> pairs[i].item]

\* The items of the pairs, sorted by key.
StableSort(pairs) == ItemsOf(SortPairs(pairs))

-----------------------------------------------------------------------------
(* find_page.                                                              *)

\* `entry.name == command`, the test of find_page's first loop
ExactMatch(entry, command) == entry.name = command

\* The test without the .lower() calls.
PartialMatchCaseSensitive(entry, command) == Contains(entry.name, command)

\* `command.lower() in entry.name.lower()`, the test of its second loop
PartialMatch(entry, command) == Contains(Lower(entry.name), Lower(command))

\* The sort key of find_page: (not name.lower().startswith(...), name.lower())
FindKey(entry, command) ==
    <<IF ~StartsWith(Lower(entry.name), Lower(command)) THEN 1 ELSE 0,
      Lower(entry.name)>>

\* `matches` after find_page's `matches.sort(key=...)`
SortMatches(matches, command) ==
    StableSort([i \in 1..Len(matches) |->
                   [key |-> FindKey(matches[i], command), item |-> matches[i]]])

\* Positions of the entries find_page's first loop would return on.
ExactPositions(entries, command) ==
    {i \in 1..Len(entries) : ExactMatch(entries[i], command)}

\* The entries find_page's second loop collects, in index order.
PartialMatches(entries, command) ==
    LET IsMatch(e) == PartialMatch(e, command)
    IN  SelectSeq(entries, IsMatch)

First(positions) == CHOOSE i \in positions : \A j \in positions : i <= j

\* The entry find_page passes to _load_page, given a match exists.
FindSelect(entries, command) ==
    IF ExactPositions(entries, command) # {}
    THEN entries[First(ExactPositions(entries, command))]
    ELSE SortMatches(PartialMatches(entries, command), command)[1]

\* What find_page leaves its caller: the page returned or the exception raised.
Found(page, msg) == [exc |-> page.exc, val |-> page.val, msg |-> msg]

\* A find_page that retries: when the selected entry's page file is absent
\* it loads the first matching entry whose file is there.
FindInWithFallback(entries, files, command) ==
    LET loadable == {i \in 1..Len(entries) :
                        /\ PartialMatch(entries[i], command)
                        /\ PagePath(entries[i]) \in DOMAIN files}
    IN  IF ExactPositions(entries, command) = {}
           /\ PartialMatches(entries, command) = <<>>
        THEN Found(Raise("ValueError"), "Command not found: " \o command)
        ELSE IF PagePath(FindSelect(entries, command)) \notin DOMAIN files
                /\ loadable # {}
        THEN Found(LoadPage(files, entries[First(loadable)]), "")
        ELSE Found(LoadPage(files, FindSelect(entries, command)), "")

\* find_page once the index is loaded
FindIn(entries, files, command) ==
    IF ExactPositions(entries, command) = {}
       /\ PartialMatches(entries, command) = <<>>
    THEN Found(Raise("ValueError"), "Command not found: " \o command)
    ELSE Found(LoadPage(files, FindSelect(entries, command)), "")

\* CacheManager.find_page
FindPage(idxFile, files, command) ==
    IF Raised(LoadIndex(idxFile)) THEN Found(LoadIndex(idxFile), "")
    ELSE FindIn(LoadIndex(idxFile).val, files, command)

-----------------------------------------------------------------------------
(* search_pages.                                                           *)

\* A score that counts the examples once, however many match.
ScoreMatchingExamplesOnce(name_lower, description_lower, examples, query_lower) ==
    (IF name_lower = query_lower THEN 100
     ELSE IF StartsWith(name_lower, query_lower) THEN 50
     ELSE IF Contains(name_lower, query_lower) THEN 25
     ELSE 0)
    + (IF Contains(description_lower, query_lower) THEN 10 ELSE 0)
    + (IF \E k \in 1..Len(examples) :
             Contains(Lower(examples[k].description), query_lower)
       THEN 15 ELSE 0)

\* CacheManager._calculate_relevance_score
ScoreLowered(name_lower, description_lower, examples, query_lower) ==
    (IF name_lower = query_lower THEN 100
     ELSE IF StartsWith(name_lower, query_lower) THEN 50
     ELSE IF Contains(name_lower, query_lower) THEN 25
     ELSE 0)
    + (IF Contains(description_lower, query_lower) THEN 10 ELSE 0)
    + 15 * Cardinality({k \in 1..Len(examples) :
                           Contains(Lower(examples[k].description), query_lower)})

RelevanceScore(page, query) ==
    ScoreLowered(Lower(page.name), Lower(page.description), page.examples,
                 Lower(query))

\* A loop without the platform test.
NeverFilteredOut(entry, platforms) == FALSE

\* `platforms and entry.platform not in platforms`: the entry is skipped
FilteredOut(entry, platforms) ==
    /\ platforms # <<>>
    /\ \A k \in 1..Len(platforms) : platforms[k] # entry.platform

\* A query test that looks at the name only.
QueryMatchesNameOnly(entry, query) == Contains(Lower(entry.name), Lower(query))

\* The query test of search_pages, on the index entry
QueryMatches(entry, query) ==
    \/ Contains(Lower(entry.name), Lower(query))
    \/ Contains(Lower(entry.description), Lower(query))

\* try: results.append(self._load_page(entry)) / except Exception: continue
LoadedOrSkipped(page) == IF Raised(page) THEN <<>> ELSE <<page.val>>

\* One iteration of search_pages' loop: what it appends to `results`.
SearchEntry(entry, files, query, platforms) ==
    IF FilteredOut(entry, platforms) THEN <<>>
    ELSE IF ~QueryMatches(entry, query) THEN <<>>
    ELSE LoadedOrSkipped(LoadPage(files, entry))

\* The loop of search_pages over entries[k..]: the pages that load, in order.
RECURSIVE SearchLoop(_, _, _, _, _)
SearchLoop(entries, k, files, query, platforms) ==
    IF k > Len(entries) THEN <<>>
    ELSE SearchEntry(entries[k], files, query, platforms)
            \o SearchLoop(entries, k + 1, files, query, platforms)

\* The sort key of search_pages: the page's score
SearchKey(page, query) == <<RelevanceScore(page, query), "">>

\* `results` after search_pages' `results.sort(key=...)`
SortResults(results, query) ==
    StableSort([i \in 1..Len(results) |->
                   [key |-> SearchKey(results[i], query), item |-> results[i]]])

\* CacheManager.search_pages: the list of Pages, or the exception raised.
SearchPages(idxFile, files, query, platforms) ==
    IF Raised(LoadIndex(idxFile)) THEN LoadIndex(idxFile)
    ELSE Ok(SortResults(SearchLoop(LoadIndex(idxFile).val, 1, files, query,
                                   platforms),
                        query))

-----------------------------------------------------------------------------
(* App.render_command and App.execute_command (src/tldrpp/app.py).          *)

\* The first example of the page, whatever the query.
FirstExampleOnly(examples, query) ==
    IF examples = <<>> THEN <<>> ELSE <<examples[1]>>

\* Page.find_best_example on the page's examples: <<>> is None.  Both loops
\* make the same test, so the second never returns.
FindBestExample(examples, query) ==
    IF examples = <<>> THEN <<>>
    ELSE IF \E k \in 1..Len(examples) :
                Contains(Lower(examples[k].description), Lower(query))
    THEN <<examples[First({k \in 1..Len(examples) :
                Contains(Lower(examples[k].description), Lower(query))})]>>
    ELSE <<examples[1]>>

\* What a command of App did: how it ended, the text returned or raised with,
\* the render calls made, the command lines run and the lines logged.
Command(status, message, made, ran, logged) ==
    [status |-> status, message |-> message, renders |-> made, ran |-> ran,
     logged |-> logged]

\* Both commands when find_page raised, or found no example.
CommandFailed(exc, message) == Command(exc, message, 0, <<>>, <<>>)

\* `raise ValueError(f"No suitable example found for command: {command}")`
NoSuitableExample(command) ==
    CommandFailed("ValueError", "No suitable example found for command: " \o command)

\* `return example.render(variables)`, `rendered` being what render came to
RenderReturned(rendered) ==
    IF Raised(rendered) THEN Command(rendered.exc, "", 1, <<>>, <<>>)
    ELSE Command("ok", rendered.val, 1, <<>>, <<>>)

\* A render_command without the `if not example` test.
RenderExampleUnchecked(example, command, variables) ==
    RenderReturned(Render(example, variables))

\* render_command from find_best_example on
RenderExample(example, command, variables) ==
    IF example = <<>> THEN NoSuitableExample(command)
    ELSE RenderReturned(Render(example[1], variables))

\* App.render_command, `found` being what find_page came to
RenderCommand(found, command, variables) ==
    IF Raised(found) THEN CommandFailed(found.exc, found.msg)
    ELSE RenderExample(FindBestExample(found.val.examples, command), command,
                       variables)

\* The verbs of _is_destructive_command
DestructiveVerbs ==
    { "rm", "rmdir", "del", "erase", "dd", "mkfs", "fdisk", "parted",
      "iptables", "ufw", "firewall-cmd", "chmod", "chown", "chattr",
      "kill", "killall", "pkill", "shutdown", "reboot", "halt",
      "mv", "move", "rename", "cp", "copy", "xcopy", "tar", "zip", "unzip",
      "git", "svn", "hg" }

\* Only a command that is a verb by itself is destructive.
EqualsVerbOnly(command_lower) == command_lower \in DestructiveVerbs

\* App._is_destructive_command, on the lower-cased command
IsDestructiveLowered(command_lower) ==
    \E verb \in DestructiveVerbs :
        StartsWith(command_lower, verb \o " ") \/ command_lower = verb

IsDestructiveCommand(command) == IsDestructiveLowered(LowerChars(command))

\* execute_command once the command is rendered: the prompt, subprocess.run
\* and _log_execution, which swallows its own failures.  The command is not
\* logged after sys.exit.
RunRendered(rendered, confirm, response, process, disk) ==
    IF IsDestructiveCommand(rendered) /\ confirm
       /\ LowerChars(response) \notin {"y", "yes"}
    THEN Command("ok", "", 1, <<>>, <<>>)
    ELSE IF process # "ok" THEN Command("SystemExit", "", 1, <<rendered>>, <<>>)
    ELSE Command("ok", "", 1, <<rendered>>,
                 IF disk = "ok" THEN <<rendered>> ELSE <<>>)

\* `rendered = example.render(variables)`: status "rendered", with the
\* command line, when execute_command goes on with it.
ExecuteRendered(rendered) ==
    IF Raised(rendered) THEN Command(rendered.exc, "", 1, <<>>, <<>>)
    ELSE Command("rendered", rendered.val, 1, <<>>, <<>>)

\* execute_command from find_best_example to render
ExecuteExample(example, command, variables) ==
    IF example = <<>> THEN NoSuitableExample(command)
    ELSE ExecuteRendered(Render(example[1], variables))

\* App.execute_command up to the rendered command, `found` being what
\* find_page came to
ExecuteCommand(found, command, variables) ==
    IF Raised(found) THEN CommandFailed(found.exc, found.msg)
    ELSE ExecuteExample(FindBestExample(found.val.examples, command), command,
                        variables)

-----------------------------------------------------------------------------
(* The downloads.                                                          *)

\* A download that swallows its failure and returns what it has: no entry.
DownloadIndexLenient(resp) == Ok(resp.entries)

\* CacheManager._download_index: the entries, or what get / raise_for_status /
\* json / the comprehension raised.
DownloadIndex(resp) ==
    IF resp.kind = "ok"
    THEN Ok([i \in 1..Len(resp.entries) |->
                IndexEntry(resp.entries[i].name, resp.entries[i].description,
                           resp.entries[i].platform)])
    ELSE Raise(resp.kind)

\* `files` with the file at `path` holding `text`
WriteFile(files, path, text) ==
    [p \in DOMAIN files \cup {path} |-> IF p = path THEN text ELSE files[p]]

\* CacheManager._download_page: the page files afterwards and the exception
\* raised, if any.  A failed write leaves the file open("w") truncated.
DownloadPage(files, entry, resp, disk) ==
    IF resp.kind # "ok" THEN [files |-> files, exc |-> resp.kind]
    ELSE IF disk = "open_fails" THEN [files |-> files, exc |-> "OSError"]
    ELSE IF disk = "write_fails"
    THEN [files |-> WriteFile(files, PagePath(entry), ""), exc |-> "OSError"]
    ELSE [files |-> WriteFile(files, PagePath(entry), resp.text), exc |-> "none"]

\* A loop without the try / except: whatever _download_page raises propagates.
CaughtNothing(exc) == FALSE

\* `except Exception` of _download_pages: does it catch what was raised?
CaughtByDownloadPages(exc) == exc \in
    {"ConnectionError", "Timeout", "HTTPError", "OSError"}

\* A loop that stops one entry early.
LoopDoneEarly(i, entries) == i >= Len(entries)

\* `for entry in index` of _download_pages is over at position i
LoopDone(i, entries) == i > Len(entries)

-----------------------------------------------------------------------------
(* The state machine.                                                      *)

\* What an operation left behind for its caller.
Outcome(op, query, platforms, status, pages, message) ==
    [op |-> op, query |-> query, platforms |-> platforms, status |-> status,
     pages |-> pages, message |-> message]

\* What find_page left: the page, or the exception and its text.
FindOutcome(command, found) ==
    Outcome("find_page", command, <<>>,
            IF Raised(found) THEN found.exc ELSE "ok",
            IF Raised(found) THEN <<>> ELSE <<found.val>>,
            found.msg)

\* What search_pages left: the pages, or the exception.
SearchOutcome(query, platforms, found) ==
    Outcome("search_pages", query, platforms,
            IF Raised(found) THEN found.exc ELSE "ok", found.val, "")

\* No function is called.
NoCall == [fn |-> "none", args |-> <<>>, ret |-> Ok(<<>>)]

\* The call has not returned yet.
Pending == [exc |-> "pending", val |-> <<>>]

\* A call of function fn on args (a record keyed by parameter name), about
\* to be made.
Call(fn, args) == [fn |-> fn, args |-> args, ret |-> Pending]

\* Call c of function fn is about to be made.
IsPending(c, fn) == c.fn = fn /\ c.ret.exc = "pending"

\* Call c of function fn has returned or raised.
IsDone(c, fn) == c.fn = fn /\ c.ret.exc # "pending"

\* run_tui has not been called.
NoTui == [pc |-> "idle", search_query |-> "", depth |-> 0, exc |-> "none"]

\* A fresh CacheManager on an empty cache directory.
CacheInit ==
    /\ indexFile = NoFile
    /\ pageFiles = <<>>
    /\ pc = "idle"
    /\ index = <<>>
    /\ cursor = 1
    /\ attempted = {}
    /\ skipped = {}
    /\ reqs = 0
    /\ indexResponse = "none"
    /\ result = Outcome("none", "", <<>>, "none", <<>>, "")
    /\ renders = 0
    /\ executed = <<>>
    /\ execLog = <<>>
    /\ tui = NoTui

\* No _save_index is followed step by step.
NoSave == [pc |-> "idle", entries |-> <<>>, prior |-> NoTextFile]

Init ==
    /\ CacheInit
    /\ indexText = NoTextFile
    /\ save = NoSave
    /\ call = NoCall

\* initialize(), called as `op` ("initialize", or "update", which only calls
\* it), up to the end of _download_index.
Initialize(op) ==
    /\ pc = "idle"
    /\ \/ /\ IsInitialized(indexFile)
          /\ reqs' = 0
          /\ result' = Outcome(op, "", <<>>, "ok", <<>>, "")
          /\ UNCHANGED <<indexFile, pageFiles, pc, index, cursor, attempted,
                         skipped, indexResponse>>
       \/ /\ ~IsInitialized(indexFile)
          /\ reqs' = 1
          /\ \E resp \in IndexResponses :
             /\ indexResponse' = resp.kind
             /\ IF Raised(DownloadIndex(resp))
                THEN /\ result' = Outcome(op, "", <<>>, DownloadIndex(resp).exc,
                                          <<>>, "")
                     /\ UNCHANGED <<pc, index, cursor, attempted, skipped>>
                ELSE /\ result' = Outcome(op, "", <<>>, "running", <<>>, "")
                     /\ pc' = "download_pages"
                     /\ index' = DownloadIndex(resp).val
                     /\ cursor' = 1
                     /\ attempted' = {}
                     /\ skipped' = {}
          /\ UNCHANGED <<indexFile, pageFiles>>
    /\ UNCHANGED <<appVars, saveVars, call>>

InitializeOp == Initialize("initialize") /\ UNCHANGED tui

\* update(): `self.initialize()`
UpdateOp == Initialize("update") /\ UNCHANGED tui

\* The try / except around _download_page, `done` being what the call did.
PageDownloaded(done) ==
    /\ pageFiles' = done.files
    /\ attempted' = attempted \cup {cursor}
    /\ skipped' = IF done.exc = "none" THEN skipped ELSE skipped \cup {cursor}
    /\ IF done.exc = "none" \/ CaughtByDownloadPages(done.exc)
       THEN /\ cursor' = cursor + 1
            /\ UNCHANGED <<pc, result>>
       ELSE /\ pc' = "idle"
            /\ result' = [result EXCEPT !.status = done.exc]
            /\ UNCHANGED cursor

\* One iteration of _download_pages' loop.
DownloadPagesStep ==
    /\ pc = "download_pages"
    /\ ~LoopDone(cursor, index)
    /\ \E resp \in PageResponses, disk \in DiskOutcomes :
          PageDownloaded(DownloadPage(pageFiles, index[cursor], resp, disk))
    /\ reqs' = reqs + 1
    /\ UNCHANGED <<indexFile, index, indexResponse, appVars, saveVars, call,
                   tui>>

\* The end of initialize(): _save_index(index), and the return.
SaveIndexStep ==
    /\ pc = "download_pages"
    /\ LoopDone(cursor, index)
    /\ indexFile' = FileOf(IndexDocument(index))
    /\ pc' = "idle"
    /\ result' = [result EXCEPT !.status = "ok"]
    /\ UNCHANGED <<pageFiles, index, cursor, attempted, skipped, reqs,
                   indexResponse, appVars, saveVars, call, tui>>

\* find_page(command)
FindPageOp ==
    /\ pc = "idle"
    /\ \E command \in Queries :
          result' = FindOutcome(command, FindPage(indexFile, pageFiles, command))
    /\ reqs' = 0
    /\ UNCHANGED <<indexFile, pageFiles, pc, index, cursor, attempted, skipped,
                   indexResponse, appVars, saveVars, call, tui>>

\* search_pages(query, platforms)
SearchPagesOp ==
    /\ pc = "idle"
    /\ \E query \in Queries, platforms \in PlatformLists :
          result' = SearchOutcome(query, platforms,
                        SearchPages(indexFile, pageFiles, query, platforms))
    /\ reqs' = 0
    /\ UNCHANGED <<indexFile, pageFiles, pc, index, cursor, attempted, skipped,
                   indexResponse, appVars, saveVars, call, tui>>

\* The command `done` of App has ended.
CommandDone(op, command, done) ==
    /\ result' = Outcome(op, command, <<>>, done.status, <<>>, done.message)
    /\ renders' = done.renders
    /\ executed' = executed \o done.ran
    /\ execLog' = execLog \o done.logged

\* render_command after find_page
RenderCommandFound(found, command) ==
    \E variables \in RenderBindings :
        CommandDone("render_command", command,
                    RenderCommand(found, command, variables))

\* App.render_command(command, variables)
RenderCommandOp ==
    /\ pc = "idle"
    /\ \E command \in Queries :
          RenderCommandFound(FindPage(indexFile, pageFiles, command), command)
    /\ reqs' = 0
    /\ UNCHANGED <<indexFile, pageFiles, pc, index, cursor, attempted, skipped,
                   indexResponse, saveVars, call, tui>>

\* execute_command from the rendered command on: config.confirm_destructive,
\* the user's answer, the process and the log's disk are met only here.
ExecutePrepared(prepared, command) ==
    IF prepared.status = "rendered"
    THEN \E confirm \in BOOLEAN, response \in Responses,
            process \in ProcessOutcomes, disk \in DiskOutcomes :
            CommandDone("execute_command", command,
                        RunRendered(prepared.message, confirm, response,
                                    process, disk))
    ELSE CommandDone("execute_command", command, prepared)

\* execute_command after find_page
ExecuteCommandFound(found, command) ==
    \E variables \in RenderBindings :
        ExecutePrepared(ExecuteCommand(found, command, variables), command)

\* App.execute_command(command, variables)
ExecuteCommandOp ==
    /\ pc = "idle"
    /\ \E command \in Queries :
          ExecuteCommandFound(FindPage(indexFile, pageFiles, command), command)
    /\ reqs' = 0
    /\ UNCHANGED <<indexFile, pageFiles, pc, index, cursor, attempted, skipped,
                   indexResponse, saveVars, call, tui>>

Next ==
    \/ InitializeOp
    \/ UpdateOp
    \/ DownloadPagesStep
    \/ SaveIndexStep
    \/ FindPageOp
    \/ SearchPagesOp

Spec == Init /\ [][Next]_vars

\* The cache under App's commands: App.initialize and App.update_cache call
\* the cache's initialize() and update().
AppNext ==
    \/ InitializeOp
    \/ UpdateOp
    \/ DownloadPagesStep
    \/ SaveIndexStep
    \/ RenderCommandOp
    \/ ExecuteCommandOp

AppSpec == Init /\ [][AppNext]_vars

-----------------------------------------------------------------------------
(* initialize() cancelled by the caller.  The code has no cancellation of  *)
(* its own: the caller's interrupt reaches it as KeyboardInterrupt, which   *)
(* `except Exception` of _download_pages does not catch.                    *)

\* Where _download_page is when the interrupt arrives: waiting for the
\* response, or inside `with open(page_file, "w")` before the text is written.
InterruptPoints == {"get", "write"}

\* _download_page interrupted at `at`: the page files afterwards and the
\* exception raised.  open(page_file, "w") has emptied the file by then.
DownloadPageInterrupted(files, entry, at) ==
    IF at = "write"
    THEN [files |-> WriteFile(files, PagePath(entry), ""),
          exc   |-> "KeyboardInterrupt"]
    ELSE [files |-> files, exc |-> "KeyboardInterrupt"]

\* The interrupt arrives during an iteration of _download_pages' loop and
\* ends initialize().
CancelOp ==
    /\ pc = "download_pages"
    /\ ~LoopDone(cursor, index)
    /\ \E at \in InterruptPoints :
          PageDownloaded(DownloadPageInterrupted(pageFiles, index[cursor], at))
    /\ reqs' = reqs + 1
    /\ UNCHANGED <<indexFile, index, indexResponse, appVars, saveVars, call,
                   tui>>

CancelNext ==
    \/ InitializeOp
    \/ UpdateOp
    \/ DownloadPagesStep
    \/ SaveIndexStep
    \/ CancelOp

CancelSpec == Init /\ [][CancelNext]_vars

-----------------------------------------------------------------------------
(* App.run_tui (src/tldrpp/app.py) and TUIApp.run (src/tldrpp/tui.py).     *)

\* Everything but the TUI.
notTuiVars == <<indexFile, pageFiles, pc, index, cursor, attempted, skipped,
                reqs, indexResponse, result, appVars, saveVars, call>>

\* Frames the interpreter allows on the stack before it raises RecursionError
\* (sys.getrecursionlimit(), 1000 by default).
RecursionLimit == 3

\* App.run_tui(search_query), up to the end of _download_index: the cache is
\* initialized when it is not.
RunTuiOp ==
    /\ tui.pc \in {"idle", "done"}
    /\ Initialize("run_tui")
    /\ \E search_query \in Queries \cup {""} :
          tui' = [NoTui EXCEPT !.pc = "initialize",
                               !.search_query = search_query]

\* initialize() is over: run_tui raises what it raised, or builds the TUIApp
\* and calls app.run(search_query).
TuiAppRun ==
    /\ tui.pc = "initialize"
    /\ pc = "idle"
    /\ tui' = IF result.status = "ok"
              THEN [tui EXCEPT !.pc = "run", !.depth = 1]
              ELSE [tui EXCEPT !.pc = "done", !.exc = result.status]
    /\ UNCHANGED notTuiVars

\* The body of TUIApp.run: `self.run()`, which is TUIApp.run again, called
\* without the query.
TuiRun ==
    /\ tui.pc = "run"
    /\ tui.depth < RecursionLimit
    /\ tui' = [tui EXCEPT !.depth = tui.depth + 1, !.search_query = ""]
    /\ UNCHANGED notTuiVars

\* The stack is full: the innermost call raises RecursionError, which no
\* frame catches, and run_tui ends with it.
TuiRecursionError ==
    /\ tui.pc = "run"
    /\ tui.depth = RecursionLimit
    /\ tui' = [tui EXCEPT !.pc = "done", !.depth = 0, !.exc = "RecursionError"]
    /\ UNCHANGED notTuiVars

TuiNext ==
    \/ RunTuiOp
    \/ DownloadPagesStep
    \/ SaveIndexStep
    \/ TuiAppRun
    \/ TuiRun
    \/ TuiRecursionError

TuiSpec == Init /\ [][TuiNext]_vars

-----------------------------------------------------------------------------
(* _save_index step by step, on the text of index.json: mkdir, open(...,   *)
(* "w"), the writes of json.dump reaching the file, the close.  Any step    *)
(* may fail (OSError) or be the last one the process takes.                *)

\* Entries whose strings hold what JSON escapes or reads as syntax.
JsonEntries ==
    { IndexEntry("ab", "B", "linux"),
      IndexEntry("a\"b", "x\\y\n", "{[:,]}"),
      IndexEntry("", " \t", "]}") }

\* The lists handed to _save_index.
JsonIndexLists == UNION { [1..n -> JsonEntries] : n \in 0..MaxIndexLen }

\* index.json before the call: absent, or saved earlier.
PriorIndexFiles ==
    { NoTextFile, SaveIndexText(NoTextFile, <<>>),
      SaveIndexText(NoTextFile, <<IndexEntry("ab", "B", "linux")>>) }

\* Everything but the file and the running save.
notSaveVars == <<indexFile, pageFiles, pc, index, cursor, attempted, skipped,
                 reqs, indexResponse, result, renders, executed, execLog, call,
                 tui>>

\* The text _save_index is writing.
SaveText == JsonDump(IndexDocument(save.entries))

\* _save_index(entries) is called: `self.cache_dir.mkdir(...)`
SaveStart ==
    /\ save.pc = "idle"
    /\ \E entries \in JsonIndexLists :
          save' = [pc |-> "open", entries |-> entries, prior |-> indexText]
    /\ UNCHANGED <<indexText, notSaveVars>>

\* `open(index_file, "w", encoding="utf-8")` creates or truncates the file.
SaveOpen ==
    /\ save.pc = "open"
    /\ indexText' = [exists |-> TRUE, text |-> Written(indexText.text, "")]
    /\ save' = [save EXCEPT !.pc = "writing"]
    /\ UNCHANGED notSaveVars

\* What is on disk after the next flush of the buffer, or after the close.
Flushed(text, full) ==
    IF Len(text) + FlushSize < Len(full)
    THEN SubSeq(full, 1, Len(text) + FlushSize)
    ELSE full

\* More of what json.dump wrote reaches the file.
SaveWrite ==
    /\ save.pc = "writing"
    /\ indexText.text # SaveText
    /\ indexText' = [indexText EXCEPT !.text = Flushed(indexText.text, SaveText)]
    /\ UNCHANGED <<save, notSaveVars>>

\* The `with` block ends with everything written: _save_index returns.
SaveClose ==
    /\ save.pc = "writing"
    /\ indexText.text = SaveText
    /\ save' = [save EXCEPT !.pc = "done"]
    /\ UNCHANGED <<indexText, notSaveVars>>

\* mkdir, open or a write raises, or the process stops: the file stays as
\* it is.
SaveFail ==
    /\ save.pc \in {"open", "writing"}
    /\ save' = [save EXCEPT !.pc = "failed"]
    /\ UNCHANGED <<indexText, notSaveVars>>

\* A cache directory without index.json or with one saved earlier.
SaveInit ==
    /\ CacheInit
    /\ indexText \in PriorIndexFiles
    /\ save = [NoSave EXCEPT !.prior = indexText]
    /\ call = NoCall

SaveNext ==
    \/ SaveStart
    \/ SaveOpen
    \/ SaveWrite
    \/ SaveClose
    \/ SaveFail

SaveSpec == SaveInit /\ [][SaveNext]_vars

-----------------------------------------------------------------------------
(* Calls of the functions that touch no state, on arguments of the        *)
(* caller's choice.                                                        *)

\* Example(description, "") for the descriptions a scored page may hold.
ScoreExamples ==
    { ExampleInit([description |-> d, command |-> ""]).val :
        d \in {"b:", "X", "ab c"} }

\* Pages handed to _calculate_relevance_score.
ScorePages ==
    { [PageInit(n, d, "linux", "") EXCEPT !.examples = exs] :
        n \in {"ab", "Ab", "ba", ""}, d \in {"B", "x", "a b"},
        exs \in UNION { [1..k -> ScoreExamples] : k \in 0..MaxExamples } }

\* Queries handed to it.
ScoreQueries == Queries \cup {""}

\* self._calculate_relevance_score(page, query)
ScoreCalls ==
    { Call("_calculate_relevance_score", [page |-> page, query |-> query]) :
        page \in ScorePages, query \in ScoreQueries }

ScoreCall ==
    /\ IsPending(call, "_calculate_relevance_score")
    /\ call' = [call EXCEPT
                   !.ret = Ok(RelevanceScore(call.args.page, call.args.query))]
    /\ UNCHANGED cacheVars

\* Placeholders a caller builds: Placeholder(name, default=...)
RenderPlaceholders ==
    { PlaceholderInit([name |-> "f"]).val,
      PlaceholderInit([name |-> "f", default |-> "d"]).val,
      PlaceholderInit([name |-> "g", default |-> "{{f}}"]).val }

\* Examples a caller builds: Example(description, command, placeholders)
RenderExamples ==
    { ExampleInit([description |-> "b:", command |-> c, placeholders |-> ps]).val :
        c \in {"ab {{f}}", "{{g}} {{f}}"},
        ps \in UNION { [1..k -> RenderPlaceholders] : k \in 0..MaxPlaceholders } }

\* example.render(variables)
RenderCalls ==
    { Call("render", [example |-> example, variables |-> variables]) :
        example \in RenderExamples, variables \in RenderBindings }

RenderCall ==
    /\ IsPending(call, "render")
    /\ call' = [call EXCEPT
                   !.ret = Render(call.args.example, call.args.variables)]
    /\ UNCHANGED cacheVars

\* cache._save_index(index) on a cache directory holding `prior`, then
\* cache._load_index()
SaveLoadCalls ==
    { Call("_save_index, _load_index",
           [prior |-> prior, entries |-> entries]) :
        prior \in PriorIndexFiles, entries \in JsonIndexLists }

SaveLoadCall ==
    /\ IsPending(call, "_save_index, _load_index")
    /\ call' = [call EXCEPT
                   !.ret = LoadIndexText(SaveIndexText(call.args.prior,
                                                       call.args.entries))]
    /\ UNCHANGED cacheVars

\* A page whose only list item has no command line after it.
DocBareItem == "# t\n\n> x\n\n- b:\n"

\* A page whose item is followed at once by its command line.
DocItemWithCommand == "# t\n\n> x\n\n- b:\n" \o BT \o "ls" \o BT \o "\n"

\* A page with two quote lines and two list items.
DocTwoItems == "> x\n> y\n- b:\n\n- c\n"

\* Page texts a caller parses: none, prose only, an item with a blank line
\* before its command, an item with its command, items without one, and text
\* that is no tldr markdown.
ParseTexts ==
    PageContents \cup {DocBareItem, DocItemWithCommand, DocTwoItems, "{{f", BT}

\* cache._parse_page(content, entry)
ParseCalls ==
    { Call("_parse_page", [content |-> content, entry |-> entry]) :
        content \in ParseTexts, entry \in CatalogEntries }

ParseCall ==
    /\ IsPending(call, "_parse_page")
    /\ call' = [call EXCEPT !.ret = ParsePage(call.args.content, call.args.entry)]
    /\ UNCHANGED cacheVars

\* Command templates a caller builds an Example from.
ExampleCommands == {"ls", "ab {{f}}", "{{g}} {{f}}", "{{f}} {{g}} {{f}}"}

\* Example(description, command)
ExampleCalls ==
    { Call("Example", [description |-> description, command |-> command]) :
        description \in {"b:", ""}, command \in ExampleCommands }

ExampleCall ==
    /\ IsPending(call, "Example")
    /\ call' = [call EXCEPT
                   !.ret = ExampleInit([description |-> call.args.description,
                                        command     |-> call.args.command])]
    /\ UNCHANGED cacheVars

\* Placeholder names a caller asks the type of.
PlaceholderNames ==
    {"file", "directory", "port", "number", "url", "ip", "username",
     "password", "email", "unknown_token", "unknown", "f",
     "File", "PATH", "zip_file", "ip_port", "user_dir", "link_count",
     "pass_email", "address_url", "description", "email_address",
     "username_password", "counter"}

\* cache._infer_placeholder_type(name)
InferTypeCalls ==
    { Call("_infer_placeholder_type", [name |-> name]) :
        name \in PlaceholderNames }

InferTypeCall ==
    /\ IsPending(call, "_infer_placeholder_type")
    /\ call' = [call EXCEPT !.ret = Ok(InferPlaceholderType(call.args.name))]
    /\ UNCHANGED cacheVars

\* Commands a caller extracts the placeholders of: the templates above, and
\* text with no token, an unclosed token and an empty token.
ExtractCommands == ExampleCommands \cup {"", "{{f", "{{}}"}

\* cache._extract_placeholders(command)
ExtractCalls ==
    { Call("_extract_placeholders", [command |-> command]) :
        command \in ExtractCommands }

ExtractCall ==
    /\ IsPending(call, "_extract_placeholders")
    /\ call' = [call EXCEPT !.ret = ExtractPlaceholders(call.args.command)]
    /\ UNCHANGED cacheVars

\* Pages whose best example a caller asks for.
BestExamplePages ==
    { [PageInit("ab", "B", "linux", "") EXCEPT !.examples = exs] :
        exs \in UNION { [1..k -> ScoreExamples] : k \in 0..MaxExamples } }

\* page.find_best_example(query)
BestExampleCalls ==
    { Call("find_best_example", [self |-> page, query |-> query]) :
        page \in BestExamplePages, query \in ScoreQueries }

BestExampleCall ==
    /\ IsPending(call, "find_best_example")
    /\ call' = [call EXCEPT
                   !.ret = Ok(FindBestExample(call.args.self.examples,
                                              call.args.query))]
    /\ UNCHANGED cacheVars

\* Example("", command, found).render({}), `found` being what
\* _extract_placeholders(command) came to.
RenderExtracted(command, found) ==
    IF Raised(found) THEN found
    ELSE Render(ExampleInit([description  |-> "",
                             command      |-> command,
                             placeholders |-> found.val]).val, <<>>)

\* _extract_placeholders of the rendered command, when there is one.
ExtractRendered(rendered) ==
    IF Raised(rendered) THEN rendered ELSE ExtractPlaceholders(rendered.val)

\* cache._extract_placeholders(
\*     Example("", command, cache._extract_placeholders(command)).render({}))
ExtractRenderCalls ==
    { Call("_extract_placeholders, render, _extract_placeholders",
           [command |-> command]) :
        command \in ExtractCommands \cup {"{{{{f}}}}"} }

ExtractRenderCall ==
    /\ IsPending(call, "_extract_placeholders, render, _extract_placeholders")
    /\ call' = [call EXCEPT
                   !.ret = ExtractRendered(
                               RenderExtracted(call.args.command,
                                   ExtractPlaceholders(call.args.command)))]
    /\ UNCHANGED cacheVars

\* Command lines example.render hands back to execute_command.
RenderedCommands ==
    {"rm -rf x", "RM x", "rm", "rmx", " rm x", "git push", "ls", "Halt"}

\* app.execute_command from `rendered = example.render(variables)` on, with
\* config.confirm_destructive, the answer typed at the prompt, how the process
\* ends and what the log's disk does.
ExecuteCalls ==
    { Call("execute_command",
           [rendered |-> rendered, confirm_destructive |-> confirm,
            response |-> response, process |-> process, disk |-> disk]) :
        rendered \in RenderedCommands, confirm \in BOOLEAN,
        response \in Responses, process \in ProcessOutcomes,
        disk \in DiskOutcomes }

ExecuteCall ==
    /\ IsPending(call, "execute_command")
    /\ call' = [call EXCEPT
                   !.ret = Ok(RunRendered(call.args.rendered,
                                          call.args.confirm_destructive,
                                          call.args.response,
                                          call.args.process, call.args.disk))]
    /\ UNCHANGED cacheVars

\* The calls a caller may make.
CallsToMake ==
    ScoreCalls \cup RenderCalls \cup SaveLoadCalls
        \cup ParseCalls \cup ExampleCalls \cup InferTypeCalls
        \cup ExtractCalls \cup BestExampleCalls
        \cup ExtractRenderCalls \cup ExecuteCalls

CallInit ==
    /\ CacheInit
    /\ indexText = NoTextFile
    /\ save = NoSave
    /\ call \in CallsToMake

CallNext ==
    \/ ScoreCall
    \/ RenderCall
    \/ SaveLoadCall
    \/ ParseCall
    \/ ExampleCall
    \/ InferTypeCall
    \/ ExtractCall
    \/ BestExampleCall
    \/ ExtractRenderCall
    \/ ExecuteCall

CallSpec == CallInit /\ [][CallNext]_vars

-----------------------------------------------------------------------------
(* Properties of initialize() and update().                                *)

InitOps == {"initialize", "update"}

\* The exceptions _download_index lets out.
IndexErrors ==
    {"ConnectionError", "Timeout", "HTTPError", "JSONDecodeError", "KeyError",
     "TypeError"}

\* C1: index.json exists only once _download_page has been called (and has
\* returned or been skipped) for every entry of the downloaded index, which
\* is the index the file holds.
C1_IndexWrittenAfterAllFetches ==
    indexFile.exists =>
        /\ indexFile.data = IndexDocument(index)
        /\ attempted = 1..Len(index)
        /\ \A i \in 1..Len(indexFile.data) : i \in attempted

\* An index of two entries is on disk, one fetched and one skipped.
C1_Witness ==
    /\ indexFile.exists
    /\ Len(indexFile.data) = 2
    /\ skipped = {1}
    /\ attempted = {1, 2}

\* C2: a page that fails to download or to be written never ends initialize():
\* while the loop runs every entry before the cursor has been attempted,
\* whichever failed, and a call that got its index always returns normally,
\* with every entry attempted and the whole downloaded index persisted.
C2_PageFailuresNeverAbort ==
    /\ pc = "download_pages" =>
          /\ result.status = "running"
          /\ attempted = 1..(cursor - 1)
          /\ skipped \subseteq attempted
    /\ (pc = "idle" /\ result.op \in InitOps /\ reqs >= 1
            /\ result.status \notin IndexErrors) =>
          /\ result.status = "ok"
          /\ attempted = 1..Len(index)
          /\ indexFile = FileOf(IndexDocument(index))

\* initialize() has returned after its first page failed and its second was
\* fetched; the index on disk lists both.
C2_Witness ==
    /\ pc = "idle"
    /\ result.op = "initialize"
    /\ result.status = "ok"
    /\ skipped = {1}
    /\ attempted = {1, 2}
    /\ Len(indexFile.data) = 2
    /\ PagePath(index[1]) \notin DOMAIN pageFiles
    /\ PagePath(index[2]) \in DOMAIN pageFiles

C4_InitializeOnInitializedIsNoOp ==
    [][(pc = "idle" /\ indexFile.exists /\ result'.op = "initialize")
        => /\ reqs' = 0
           /\ pc' = "idle"
           /\ result'.status = "ok"
           /\ indexFile' = indexFile
           /\ pageFiles' = pageFiles]_vars

\* initialize() has returned without a request on a cache holding an index
\* and a page.
C4_Witness ==
    /\ result.op = "initialize"
    /\ result.status = "ok"
    /\ reqs = 0
    /\ indexFile.exists
    /\ DOMAIN pageFiles # {}

\* C5: an update() that returns has downloaded the index again, also on a
\* cache that was initialized.  (update() calls initialize(), which returns
\* at once on such a cache.)
C5_UpdateDownloadsAgain ==
    (pc = "idle" /\ result.op = "update" /\ result.status = "ok")
        => /\ reqs >= 1
           /\ attempted = 1..Len(index)

-----------------------------------------------------------------------------
(* Properties of find_page.                                                *)

\* The text of the page file of `entry`.
PageText(entry) == pageFiles[PagePath(entry)]

\* name contains query, compared case-insensitively
ContainsIgnoringCase(name, query) == Contains(LowerChars(name), LowerChars(query))

\* Positions of the index whose name is exactly `query`.
ExactAt(data, query) == {i \in 1..Len(data) : data[i].name = query}

\* Positions of the index whose name contains `query`, case-insensitively.
PartialAt(data, query) ==
    {i \in 1..Len(data) : ContainsIgnoringCase(data[i].name, query)}

\* Entry a comes before entry b for `query`: a name that starts with the query
\* before one that only contains it, then the lexicographically smaller name
\* (lower-cased).
ComesBefore(a, b, query) ==
    LET pa == StartsWith(LowerChars(a.name), LowerChars(query))
        pb == StartsWith(LowerChars(b.name), LowerChars(query))
    IN  \/ pa /\ ~pb
        \/ pa = pb /\ StrLess(LowerChars(a.name), LowerChars(b.name))

\* The position of the best partial match: no match comes before it, and it
\* is the first in index order of those that tie with it.
BestPartialAt(data, query) ==
    CHOOSE i \in PartialAt(data, query) :
        \A j \in PartialAt(data, query) :
            /\ ~ComesBefore(data[j], data[i], query)
            /\ (j < i => ComesBefore(data[i], data[j], query))

\* The page find_page returned is the page of `entry`.
ReturnedPageOf(entry) ==
    /\ result.status = "ok"
    /\ Len(result.pages) = 1
    /\ result.pages[1].name = entry.name
    /\ result.pages[1].platform = entry.platform
    /\ result.pages[1].raw_content = PageText(entry)

\* C6: when an index entry is named exactly as the command, find_page returns
\* the Page of the first such entry.  Stated for the entries whose page file
\* is on disk.
C6_ExactMatchReturned ==
    (/\ result.op = "find_page"
     /\ indexFile.exists
     /\ ExactAt(indexFile.data, result.query) # {}
     /\ PagePath(indexFile.data[First(ExactAt(indexFile.data, result.query))])
            \in DOMAIN pageFiles)
        => ReturnedPageOf(indexFile.data[First(ExactAt(indexFile.data, result.query))])

\* C7: when no entry is named exactly as the command, find_page returns the
\* Page of the best partial match.  Stated for the entries whose page file is
\* on disk.
C7_BestPartialReturned ==
    (/\ result.op = "find_page"
     /\ indexFile.exists
     /\ ExactAt(indexFile.data, result.query) = {}
     /\ PartialAt(indexFile.data, result.query) # {}
     /\ PagePath(indexFile.data[BestPartialAt(indexFile.data, result.query)])
            \in DOMAIN pageFiles)
        => ReturnedPageOf(indexFile.data[BestPartialAt(indexFile.data, result.query)])

\* C8: on a loaded index, find_page raises "Command not found: <command>"
\* exactly when no entry's name is the command or contains it,
\* case-insensitively; the lookup leaves the index and the page files as
\* they were.
C8_NotFoundExactlyWhenNoMatch ==
    [][(pc = "idle" /\ indexFile.exists /\ result'.op = "find_page")
        => /\ (result'.status = "ValueError"
                 <=> /\ ExactAt(indexFile.data, result'.query) = {}
                     /\ PartialAt(indexFile.data, result'.query) = {})
           /\ (result'.status = "ValueError"
                 => result'.message = "Command not found: " \o result'.query)
           /\ indexFile' = indexFile
           /\ pageFiles' = pageFiles
           /\ pc' = "idle"]_vars

\* find_page("c") has raised on an index of two entries, neither matching.
C8_Witness ==
    /\ result.op = "find_page"
    /\ result.query = "c"
    /\ result.status = "ValueError"
    /\ result.message = "Command not found: c"
    /\ indexFile.exists
    /\ Len(indexFile.data) = 2

-----------------------------------------------------------------------------
(* Properties of search_pages.                                             *)

\* The platforms of a platform list.
PlatformSet(platforms) == {platforms[k] : k \in 1..Len(platforms)}

\* Index entry `entry` matches the query and its page loads.
MatchesAndLoads(entry, query) ==
    /\ \/ ContainsIgnoringCase(entry.name, query)
       \/ ContainsIgnoringCase(entry.description, query)
    /\ PagePath(entry) \in DOMAIN pageFiles
    /\ ~Raised(ParsePage(PageText(entry), entry))

\* Some returned page is the page of `entry`.
InResults(entry) ==
    \E k \in 1..Len(result.pages) :
        /\ result.pages[k].name = entry.name
        /\ result.pages[k].platform = entry.platform

\* C9: with a non-empty platform list every page search_pages returns is of a
\* listed platform; with an empty one every entry that matches the query and
\* loads is returned, whatever its platform.
C9_PlatformFilter ==
    (result.op = "search_pages" /\ result.status = "ok") =>
        /\ result.platforms # <<>> =>
              \A k \in 1..Len(result.pages) :
                  result.pages[k].platform \in PlatformSet(result.platforms)
        /\ result.platforms = <<>> =>
              \A i \in 1..Len(indexFile.data) :
                  MatchesAndLoads(indexFile.data[i], result.query)
                      => InResults(indexFile.data[i])

\* A search limited to linux returned a page although an osx entry of the
\* index matches the query and loads.
C9_Witness ==
    /\ result.op = "search_pages"
    /\ result.status = "ok"
    /\ result.platforms = <<"linux">>
    /\ Len(result.pages) >= 1
    /\ \E i \in 1..Len(indexFile.data) :
          /\ indexFile.data[i].platform = "osx"
          /\ MatchesAndLoads(indexFile.data[i], result.query)

\* C10: the pages search_pages returns are in non-increasing order of
\* relevance score.
C10_ResultsByDescendingScore ==
    (result.op = "search_pages" /\ result.status = "ok") =>
        \A k \in 1..(Len(result.pages) - 1) :
            RelevanceScore(result.pages[k], result.query)
                >= RelevanceScore(result.pages[k + 1], result.query)

\* `entry` passes the platform list, matches the query and its page loads.
Qualifies(entry, query, platforms) ==
    /\ platforms = <<>> \/ entry.platform \in PlatformSet(platforms)
    /\ MatchesAndLoads(entry, query)

\* Positions of the index holding a qualifying entry of the name and platform
\* of `entry`.
QualifyingAt(data, entry, query, platforms) ==
    {i \in 1..Len(data) : /\ data[i].name = entry.name
                          /\ data[i].platform = entry.platform
                          /\ Qualifies(data[i], query, platforms)}

\* Positions of the result holding a page of the name and platform of `entry`.
ReturnedAt(pages, entry) ==
    {k \in 1..Len(pages) : /\ pages[k].name = entry.name
                           /\ pages[k].platform = entry.platform}

\* C11: on a loaded index search_pages never raises, and returns one Page, of
\* the text of its page file, for each entry that passes the platform list,
\* matches the query in name or description and whose page loads, and no
\* other page: an entry whose page does not load is left out.
C11_OnePagePerLoadableMatch ==
    (result.op = "search_pages" /\ indexFile.exists) =>
        /\ result.status = "ok"
        /\ \A i \in 1..Len(indexFile.data) :
              Cardinality(ReturnedAt(result.pages, indexFile.data[i]))
                = Cardinality(QualifyingAt(indexFile.data, indexFile.data[i],
                                           result.query, result.platforms))
        /\ \A k \in 1..Len(result.pages) :
              \E i \in 1..Len(indexFile.data) :
                  /\ k \in ReturnedAt(result.pages, indexFile.data[i])
                  /\ Qualifies(indexFile.data[i], result.query, result.platforms)
                  /\ result.pages[k].raw_content = PageText(indexFile.data[i])

\* A search for "x" returned one page, of an entry matching by description
\* only, and left out an entry that matches but whose page does not load.
C11_Witness ==
    /\ result.op = "search_pages"
    /\ result.status = "ok"
    /\ result.query = "x"
    /\ Len(indexFile.data) = 2
    /\ Len(result.pages) = 1
    /\ \E i \in 1..Len(indexFile.data) :
          /\ ContainsIgnoringCase(indexFile.data[i].description, result.query)
          /\ ~FilteredOut(indexFile.data[i], result.platforms)
          /\ ~MatchesAndLoads(indexFile.data[i], result.query)

-----------------------------------------------------------------------------
(* Properties of the relevance score.                                      *)

\* N: 100 for a name equal to the query, 50 for one starting with it, 25 for
\* one containing it, compared case-insensitively.
NamePoints(name, query) ==
    IF LowerChars(name) = LowerChars(query) THEN 100
    ELSE IF StartsWith(LowerChars(name), LowerChars(query)) THEN 50
    ELSE IF ContainsIgnoringCase(name, query) THEN 25
    ELSE 0

\* D: 10 for a description containing the query.
DescriptionPoints(description, query) ==
    IF ContainsIgnoringCase(description, query) THEN 10 ELSE 0

\* 15 for each example of examples[k..] whose description contains the query.
RECURSIVE ExamplePoints(_, _, _)
ExamplePoints(examples, k, query) ==
    IF k > Len(examples) THEN 0
    ELSE (IF ContainsIgnoringCase(examples[k].description, query) THEN 15 ELSE 0)
         + ExamplePoints(examples, k + 1, query)

\* C12: the score of a Page for a query is N + D + 15 * E: N by the name
\* (100 equal, 50 prefix, 25 substring), D = 10 when the description contains
\* the query, E the number of examples whose description contains it, all
\* compared case-insensitively.
C12_ScoreIsSumOfParts ==
    IsDone(call, "_calculate_relevance_score") =>
        /\ ~Raised(call.ret)
        /\ call.ret.val = NamePoints(call.args.page.name, call.args.query)
                          + DescriptionPoints(call.args.page.description, call.args.query)
                          + ExamplePoints(call.args.page.examples, 1, call.args.query)

\* A score of 50 + 10 + 2 * 15: prefix of the name, in the description and
\* in two example descriptions.
C12_Witness ==
    /\ IsDone(call, "_calculate_relevance_score")
    /\ call.args.page.name = "ba"
    /\ call.args.query = "b"
    /\ Len(call.args.page.examples) = 2
    /\ call.ret.val = 90

-----------------------------------------------------------------------------
(* Properties of render.                                                   *)

\* The value a placeholder stands for: the binding when present and not
\* empty, else the default when not empty, else the placeholder's name.
ResolvedValue(placeholder, variables) ==
    IF placeholder.name \in DOMAIN variables /\ variables[placeholder.name] # ""
    THEN variables[placeholder.name]
    ELSE IF placeholder.default # "" THEN placeholder.default
    ELSE placeholder.name

\* The token of a placeholder name.
TokenOf(name) == "{{" \o name \o "}}"

\* Placeholders whose token starts at position i of the template.
TokensAt(template, i, placeholders) ==
    {k \in 1..Len(placeholders) :
        StartsWith(DropFirst(template, i - 1), TokenOf(placeholders[k].name))}

\* template[i..] with every token replaced, at once, by the value of its
\* placeholder; the values are not scanned again.
RECURSIVE Substituted(_, _, _, _)
Substituted(template, i, placeholders, variables) ==
    IF i > Len(template) THEN ""
    ELSE IF TokensAt(template, i, placeholders) # {}
    THEN ResolvedValue(placeholders[First(TokensAt(template, i, placeholders))],
                       variables)
            \o Substituted(template,
                           i + Len(TokenOf(placeholders[
                                   First(TokensAt(template, i, placeholders))].name)),
                           placeholders, variables)
    ELSE CharAt(template, i) \o Substituted(template, i + 1, placeholders, variables)

\* C13: for an example with placeholders, render returns the template with
\* every token of each placeholder replaced by the binding when present and
\* not empty, else by the default when not empty, else by the placeholder's
\* name.
C13_RenderSubstitutesResolvedValues ==
    (IsDone(call, "render") /\ call.args.example.placeholders # <<>>) =>
        /\ ~Raised(call.ret)
        /\ call.ret.val = Substituted(call.args.example.command, 1,
                                      call.args.example.placeholders,
                                      call.args.variables)

\* Some placeholder of the example resolves to a value holding the token of
\* another placeholder of the example.
ValueHoldsToken(example, variables) ==
    \E j, k \in 1..Len(example.placeholders) :
        /\ example.placeholders[j].name # example.placeholders[k].name
        /\ Contains(ResolvedValue(example.placeholders[j], variables),
                    TokenOf(example.placeholders[k].name))

\* C14: a value that holds the token of another placeholder comes out of
\* render as it is: the result is the template with all tokens replaced at
\* once, and the value's own tokens are still in it.
C14_ResolvedValuesAreOpaque ==
    (/\ IsDone(call, "render")
     /\ ValueHoldsToken(call.args.example, call.args.variables)) =>
        /\ call.ret.exc = "none"
        /\ \A j \in 1..Len(call.args.example.placeholders) :
              Contains(call.args.example.command,
                       TokenOf(call.args.example.placeholders[j].name))
                => Contains(call.ret.val,
                            ResolvedValue(call.args.example.placeholders[j],
                                          call.args.variables))
        /\ Len(call.ret.val) = Len(Substituted(call.args.example.command, 1,
                                               call.args.example.placeholders,
                                               call.args.variables))

-----------------------------------------------------------------------------
(* Properties of App's commands.                                           *)

AppCommands == {"render_command", "execute_command"}

\* find_page(command) returns a Page without examples.
FindsPageWithoutExamples(command) ==
    /\ ~Raised(FindPage(indexFile, pageFiles, command))
    /\ FindPage(indexFile, pageFiles, command).val.examples = <<>>

\* C15: when the Page found for the command has no example, render_command
\* and execute_command raise "No suitable example found for command:
\* <command>"; render is not called, no command line is run and none is
\* logged.
C15_NoExampleIsCallerError ==
    [][(/\ pc = "idle"
        /\ result'.op \in AppCommands
        /\ FindsPageWithoutExamples(result'.query))
        => /\ result'.status = "ValueError"
           /\ result'.message
                = "No suitable example found for command: " \o result'.query
           /\ renders' = 0
           /\ executed' = executed
           /\ execLog' = execLog]_vars

\* execute_command("b") has raised on a cache whose best match for "b" is a
\* page without examples.
C15_Witness ==
    /\ result.op = "execute_command"
    /\ result.query = "b"
    /\ result.status = "ValueError"
    /\ result.message = "No suitable example found for command: b"
    /\ FindsPageWithoutExamples("b")
    /\ renders = 0
    /\ executed = <<>>

-----------------------------------------------------------------------------
(* Properties of the persisted index.                                      *)

\* C16: _load_index after _save_index(index) returns a list of the length
\* and order of `index` whose entries have its names, descriptions and
\* platforms, whatever index.json held before.
C16_SaveThenLoadIsTheList ==
    IsDone(call, "_save_index, _load_index") =>
        /\ ~Raised(call.ret)
        /\ Len(call.ret.val) = Len(call.args.entries)
        /\ \A i \in 1..Len(call.args.entries) :
              /\ call.ret.val[i].name = call.args.entries[i].name
              /\ call.ret.val[i].description = call.args.entries[i].description
              /\ call.ret.val[i].platform = call.args.entries[i].platform

\* Two entries, one with a quote, a backslash, a newline and brackets in its
\* strings, were saved over an index of one entry and loaded back.
C16_Witness ==
    /\ IsDone(call, "_save_index, _load_index")
    /\ call.args.prior.exists
    /\ call.args.prior.text # "[]"
    /\ Len(call.args.entries) = 2
    /\ call.args.entries[1].name = "a\"b"
    /\ call.ret.val = call.args.entries

\* C17: whenever index.json exists, also while _save_index runs and after it
\* failed or was stopped midway, it holds what it held before the call or the
\* complete new list, and _load_index succeeds on it.
C17_NoPartialIndexVisible ==
    indexText.exists =>
        /\ \/ indexText = save.prior
           \/ save.pc # "idle" /\ indexText.text = SaveText
        /\ ~Raised(LoadIndexText(indexText))

-----------------------------------------------------------------------------
(* Properties of the parser, of Example and of the type inference.         *)

\* C18: _parse_page returns a Page for every text, and for a text whose list
\* item has no command line the page holds that item as an Example with an
\* empty command and no placeholders.
C18_ParseNeverRaises ==
    IsDone(call, "_parse_page") =>
        /\ ~Raised(call.ret)
        /\ call.args.content = DocBareItem =>
              /\ Len(call.ret.val.examples) = 1
              /\ call.ret.val.examples[1].description = "b:"
              /\ call.ret.val.examples[1].command = ""
              /\ call.ret.val.examples[1].placeholders = <<>>

\* The distinct elements of a sequence, in the order of their first occurrence.
RECURSIVE DistinctInOrder(_)
DistinctInOrder(names) ==
    IF names = <<>> THEN <<>>
    ELSE LET rest == DistinctInOrder(SubSeq(names, 1, Len(names) - 1))
             last == names[Len(names)]
         IN  IF \E i \in 1..Len(rest) : rest[i] = last THEN rest
             ELSE Append(rest, last)

\* The example holds one placeholder per distinct token of its command, in
\* the order the tokens first occur.
ConsistentExample(example) ==
    LET tokens == DistinctInOrder(FindAllTokens(example.command, 1))
    IN  /\ Len(example.placeholders) = Len(tokens)
        /\ \A i \in 1..Len(tokens) : example.placeholders[i].name = tokens[i]

\* C19: an Example built from a description and a command, and every Example
\* of a parsed page, holds exactly one placeholder per distinct token of its
\* command, in first-occurrence order.
C19_PlaceholdersMatchTemplate ==
    /\ IsDone(call, "Example") =>
          /\ ~Raised(call.ret)
          /\ ConsistentExample(call.ret.val)
    /\ IsDone(call, "_parse_page") /\ ~Raised(call.ret) =>
          \A i \in 1..Len(call.ret.val.examples) :
              ConsistentExample(call.ret.val.examples[i])

\* The kinds in their declared order, each with its keywords.
KindTable ==
    << [kind |-> "file",      keywords |-> {"file", "path"}],
       [kind |-> "directory", keywords |-> {"dir", "directory"}],
       [kind |-> "port",      keywords |-> {"port"}],
       [kind |-> "number",    keywords |-> {"num", "number", "count"}],
       [kind |-> "url",       keywords |-> {"url", "link"}],
       [kind |-> "ip",        keywords |-> {"ip", "address"}],
       [kind |-> "username",  keywords |-> {"user", "username"}],
       [kind |-> "password",  keywords |-> {"pass", "password"}],
       [kind |-> "email",     keywords |-> {"email"}] >>

\* Rows of the table with a keyword that `name` contains, ignoring case.
MatchingKinds(name) ==
    {k \in 1..Len(KindTable) :
        \E w \in KindTable[k].keywords : ContainsIgnoringCase(name, w)}

\* The kind of the first matching row, text when there is none.
DeclaredKind(name) ==
    IF MatchingKinds(name) = {} THEN "text"
    ELSE KindTable[CHOOSE k \in MatchingKinds(name) :
                       \A j \in MatchingKinds(name) : k <= j].kind

\* C20: _infer_placeholder_type returns the kind of the first rule, in the
\* declared order, with a keyword the name contains ignoring case, and text
\* when no rule matches; each kind name has its own kind and "unknown_token"
\* is text.
C20_InferTypeFollowsRuleOrder ==
    IsDone(call, "_infer_placeholder_type") =>
        /\ call.ret = Ok(DeclaredKind(call.args.name))
        /\ \A k \in 1..Len(KindTable) :
              call.args.name = KindTable[k].kind => call.ret.val = KindTable[k].kind
        /\ call.args.name = "unknown_token" => call.ret.val = "text"

\* A name with the keywords of two rules got the kind of the earlier rule,
\* which is not the rule whose keyword comes first in the name.
C20_Witness ==
    /\ IsDone(call, "_infer_placeholder_type")
    /\ call.args.name = "ip_port"
    /\ call.ret.val = "port"

-----------------------------------------------------------------------------
(* Properties of _extract_placeholders and find_best_example.              *)

\* C21: _extract_placeholders returns, without raising, one placeholder per
\* distinct token of the command, in the order the tokens first occur, with
\* non-empty and pairwise distinct names, each with the type inferred from its
\* name; a command without tokens gives the empty list.
C21_ExtractOnePlaceholderPerToken ==
    IsDone(call, "_extract_placeholders") =>
        /\ ~Raised(call.ret)
        /\ ConsistentExample([command      |-> call.args.command,
                              placeholders |-> call.ret.val])
        /\ \A i \in 1..Len(call.ret.val) :
              /\ call.ret.val[i].name # ""
              /\ call.ret.val[i].type = DeclaredKind(call.ret.val[i].name)
              /\ \A j \in 1..Len(call.ret.val) :
                    call.ret.val[i].name = call.ret.val[j].name => i = j

\* Positions of the examples whose description contains the query, ignoring
\* case.
DescribedBy(examples, query) ==
    {k \in 1..Len(examples) :
        ContainsIgnoringCase(examples[k].description, query)}

\* C22: find_best_example returns None exactly when the page has no example;
\* otherwise the first example whose description contains the query ignoring
\* case, and the first example of the page when no description does.
C22_BestExampleIsFirstMatchOrFirst ==
    IsDone(call, "find_best_example") =>
        LET examples == call.args.self.examples
            matching == DescribedBy(examples, call.args.query)
        IN  /\ ~Raised(call.ret)
            /\ call.ret.val = <<>> <=> examples = <<>>
            /\ examples # <<>> /\ matching # {} =>
                  \E k \in matching :
                      /\ \A j \in matching : k <= j
                      /\ call.ret.val = <<examples[k]>>
            /\ examples # <<>> /\ matching = {} =>
                  call.ret.val = <<examples[1]>>

\* The query is in the description of the second example only, in another
\* case, and the second example was returned.
C22_Witness ==
    /\ IsDone(call, "find_best_example")
    /\ Len(call.args.self.examples) = 2
    /\ call.args.query = "AB"
    /\ call.args.self.examples[1].description = "X"
    /\ call.ret.val = <<call.args.self.examples[2]>>
    /\ call.args.self.examples[2].description = "ab c"

-----------------------------------------------------------------------------
(* Properties of _parse_page on the lines of a page.                       *)

\* The text after the marker of each stripped line that starts with it, in
\* line order.
RECURSIVE TextsAfter(_, _)
TextsAfter(lines, marker) ==
    IF lines = <<>> THEN <<>>
    ELSE IF StartsWith(Strip(Head(lines)), marker)
    THEN <<DropFirst(Strip(Head(lines)), Len(marker))>>
            \o TextsAfter(Tail(lines), marker)
    ELSE TextsAfter(Tail(lines), marker)

\* The parser's locals once it has consumed the first k lines of the call's
\* content.
ParsedPrefix(k) ==
    ParseLoop(ParseStart(call.args.content, call.args.entry),
              SubSeq(SplitLines(call.args.content), 1, k), 1)

\* The examples the parser holds: those appended, and the pending one.
HeldExamples(st) == Len(st.page.examples) + (IF st.has_current THEN 1 ELSE 0)

\* C23: after any prefix of the lines the examples appended, plus one when an
\* example is pending, are as many as the list items seen; the returned page
\* holds one example per list item, in line order.
C23_OneExamplePerListItem ==
    IsDone(call, "_parse_page") =>
        LET lines == SplitLines(call.args.content)
        IN  /\ \A k \in 0..Len(lines) :
                  /\ ParsedPrefix(k).exc = "none"
                  /\ HeldExamples(ParsedPrefix(k))
                        = Len(TextsAfter(SubSeq(lines, 1, k), "- "))
            /\ ~Raised(call.ret)
            /\ Len(call.ret.val.examples) = Len(TextsAfter(lines, "- "))
            /\ \A i \in 1..Len(call.ret.val.examples) :
                  call.ret.val.examples[i].description
                      = TextsAfter(lines, "- ")[i]

\* C24: a command line right after its list item sets the example's command;
\* a command line after a blank line is ignored and the example, still
\* pending, is returned with its empty command.
C24_CommandOnlyWhileInExample ==
    IsDone(call, "_parse_page") =>
        /\ call.args.content = DocItemWithCommand =>
              /\ ~Raised(call.ret)
              /\ Len(call.ret.val.examples) = 1
              /\ call.ret.val.examples[1].command = "ls"
        /\ call.args.content = DocExample =>
              /\ ~Raised(call.ret)
              /\ Len(call.ret.val.examples) = 1
              /\ call.ret.val.examples[1].command = ""
              /\ call.ret.val.examples[1].placeholders = <<>>

\* C25: the returned page has the entry's name and platform, the text of the
\* last quote line as description (the entry's description without one), and
\* per list item an example described by the text after the marker, colon
\* included.
C25_FieldsCopiedVerbatim ==
    IsDone(call, "_parse_page") =>
        LET lines  == SplitLines(call.args.content)
            quotes == TextsAfter(lines, "> ")
            items  == TextsAfter(lines, "- ")
        IN  /\ ~Raised(call.ret)
            /\ call.ret.val.name = call.args.entry.name
            /\ call.ret.val.platform = call.args.entry.platform
            /\ call.ret.val.description =
                  IF quotes = <<>> THEN call.args.entry.description
                  ELSE quotes[Len(quotes)]
            /\ [i \in 1..Len(call.ret.val.examples) |->
                   call.ret.val.examples[i].description] = items

\* C26: the command rendered, without bindings, from the example that holds
\* the placeholders extracted from it has no token left: extracting from it
\* returns no placeholder.
C26_RenderedTemplateHasNoToken ==
    IsDone(call, "_extract_placeholders, render, _extract_placeholders") =>
        /\ ~Raised(call.ret)
        /\ call.ret.val = <<>>

-----------------------------------------------------------------------------
(* Properties of App.execute_command once the command is rendered.         *)

\* The command is, or starts with followed by a space, one of the listed
\* verbs, whatever the case of its letters.
ClassifiedDestructive(command) ==
    \E verb \in DestructiveVerbs :
        \/ LowerChars(command) = verb
        \/ /\ Len(command) > Len(verb)
           /\ LowerChars(SubSeq(command, 1, Len(verb) + 1)) = verb \o " "

\* The user answered y or yes.
Confirmed(response) == LowerChars(response) \in {"y", "yes"}

\* C27: with confirm_destructive on, a rendered command classified as
\* destructive whose confirmation was not answered with y or yes is neither
\* run nor written to the execution log.
C27_DestructiveNeedsConfirmation ==
    (/\ IsDone(call, "execute_command")
     /\ call.args.confirm_destructive
     /\ ClassifiedDestructive(call.args.rendered)
     /\ ~Confirmed(call.args.response)) =>
        /\ call.ret.val.ran = <<>>
        /\ call.ret.val.logged = <<>>

\* A command starting with a verb in upper case was answered with n, and
\* nothing was run or logged although the process and the log would work.
C27_Witness ==
    /\ IsDone(call, "execute_command")
    /\ call.args.rendered = "RM x"
    /\ call.args.confirm_destructive
    /\ call.args.response = "n"
    /\ call.args.process = "ok"
    /\ call.args.disk = "ok"
    /\ call.ret.val.ran = <<>>
    /\ call.ret.val.logged = <<>>

-----------------------------------------------------------------------------
(* Properties of a cancelled initialize().                                 *)

\* initialize() was cancelled and no operation has been called since.
Cancelled == pc = "idle" /\ result.status = "KeyboardInterrupt"

\* C28: the step that cancels initialize() in the fetch loop leaves every
\* page file that exists as it is and writes no index.json; is_initialized()
\* is false afterwards, and the next initialize() downloads the index again
\* and goes through the pages.
C28_CancelKeepsPagesAndNoIndex ==
    [][/\ (pc = "download_pages" /\ Cancelled') =>
             /\ \A p \in DOMAIN pageFiles :
                   p \in DOMAIN pageFiles' /\ pageFiles'[p] = pageFiles[p]
             /\ ~indexFile'.exists
             /\ ~IsInitialized(indexFile')
       /\ (Cancelled /\ result'.op \in InitOps) =>
             /\ reqs' = 1
             /\ indexResponse' = "ok" => pc' = "download_pages" /\ cursor' = 1
      ]_vars

-----------------------------------------------------------------------------
(* find_page when the page file of the selected entry is absent.           *)

\* The position of the entry find_page selects for `query`: the first entry
\* named exactly so, else the best partial match.
SelectedAt(data, query) ==
    IF ExactAt(data, query) # {} THEN First(ExactAt(data, query))
    ELSE BestPartialAt(data, query)

\* C29: when the page file of the one entry find_page selects is absent,
\* find_page raises the load error (not "Command not found") and returns no
\* page, whatever other matching entries have their file on disk.
C29_NoFallbackWhenPageFileAbsent ==
    (/\ result.op = "find_page"
     /\ indexFile.exists
     /\ PartialAt(indexFile.data, result.query) # {}
     /\ PagePath(indexFile.data[SelectedAt(indexFile.data, result.query)])
            \notin DOMAIN pageFiles)
        => /\ result.status = "FileNotFoundError"
           /\ result.pages = <<>>
           /\ result.message = ""

\* The index holds ab on two platforms; the fetch of the first was skipped,
\* the page of the second is on disk, and find_page("ab") raised.
C29_Witness ==
    /\ result.op = "find_page"
    /\ result.query = "ab"
    /\ indexFile.exists
    /\ Len(indexFile.data) = 2
    /\ indexFile.data[1].name = "ab"
    /\ indexFile.data[2].name = "ab"
    /\ PagePath(indexFile.data[1]) \notin DOMAIN pageFiles
    /\ PagePath(indexFile.data[2]) \in DOMAIN pageFiles
    /\ result.status = "FileNotFoundError"

-----------------------------------------------------------------------------
(* Properties of App.run_tui.                                              *)

\* C30: TUIApp.run is entered only on an initialized cache, once, with the
\* query given to run_tui, and does not call itself; a run_tui whose
\* initialize() succeeded ends without an exception.
C30_TuiStartedOnceAndReturns ==
    /\ tui.depth >= 1 => IsInitialized(indexFile)
    /\ tui.depth <= 1
    /\ (tui.pc = "done" /\ IsInitialized(indexFile)) => tui.exc = "none"

=============================================================================
